---- MODULE Spec2Model ----
(***************************************************************************)
(* A model of the text preprocessing service: TextPreprocessor and         *)
(* FrequencyAnalyzer of starter_preprocess.py and the /api/clean handler   *)
(* of app.py.  Texts are sequences of characters; every regular-expression *)
(* pass of the source is an operator over such sequences.                  *)
(***************************************************************************)
EXTENDS Integers, Sequences, FiniteSets, TLC

VARIABLES
    pc,                 \* position of the current call sequence
    text,               \* the str argument of the TextPreprocessor call
    preserve_sentences, \* normalize_text's flag
    normalized,         \* normalize_text(text, preserve_sentences)
    renormalized,       \* normalize_text(normalized, preserve_sentences)
    num_sentences,      \* create_summary's argument
    summary,            \* create_summary's return value
    tokens,             \* calculate_ngrams' token list
    n,                  \* calculate_ngrams' n
    table,              \* a frequency dictionary
    smoothing,          \* calculate_probabilities' smoothing
    probabilities,      \* calculate_probabilities' return value
    file,               \* the JSON file of save_frequencies
    loaded,             \* load_frequencies' return value
    outcome,            \* how the last FrequencyAnalyzer call ended
    entry,              \* what is called: the /api/clean route or fetch_from_url
    request,            \* the JSON body of the POST, or fetch_from_url's argument
    remote,             \* what the server behind the URL answers
    network,            \* the URLs handed to requests.get, in order
    fetched,            \* how a direct call of fetch_from_url ended
    response            \* the response of /api/clean

textVars == <<text, preserve_sentences, normalized, renormalized,
              num_sentences, summary>>

freqVars == <<tokens, n, table, smoothing, probabilities, file, loaded, outcome>>

appVars == <<entry, request, remote, network, fetched, response>>

vars == <<pc, textVars, freqVars, appVars>>

----------------------------------------------------------------------------
(* Bounds of the model. *)

\* longest text handed to normalize_text
MaxTextLen == 4

\* longest text handed to create_summary
MaxSummaryTextLen == 6

\* largest num_sentences handed to create_summary
MaxNumSentences == 3

\* longest token list handed to calculate_ngrams
MaxTokens == 4

\* largest n handed to calculate_ngrams
MaxN == 5

\* most characters of a token of a frequency dictionary's key
MaxTokenLen == 2

\* most tokens of a tuple key
MaxArity == 2

\* most keys of a frequency dictionary
MaxEntries == 2

\* largest count of a frequency dictionary
MaxCount == 2

\* largest smoothing handed to calculate_probabilities
MaxSmoothing == 1

\* longest URL of a request
MaxUrlLen == 5

\* longest document a server answers with
MaxDocLen == 4

----------------------------------------------------------------------------
(* Characters.  A character is a one-symbol string; the non-ASCII          *)
(* characters the source names are written by name.                        *)

LSQUO == "lsquo"    \* U+2018
RSQUO == "rsquo"    \* U+2019
EMDASH == "emdash"  \* U+2014
ENDASH == "endash"  \* U+2013

\* \w of the re module, over the characters of the model
IsWord(c) == c \in {"a", "b", "A", "t", "x", "T", "X", "1", "_"}

\* \s of the re module (and str.isspace, which strip() and split() use)
IsSpace(c) == c \in {" ", "\t", "\n"}

\* [.!?]
IsTerminator(c) == c \in {".", "!", "?"}

\* str.lower() on one character
LowerChar(c) ==
    CASE c = "A" -> "a"
      [] c = "T" -> "t"
      [] c = "X" -> "x"
      [] OTHER -> c

\* str.lower()
lower(s) == [i \in 1..Len(s) |-> LowerChar(s[i])]

\* re.sub of the characters of a class by a one-character replacement
SubChar(s, class, repl) ==
    [i \in 1..Len(s) |-> IF s[i] \in class THEN repl ELSE s[i]]

\* re.sub(r"\s+", " ", s): every maximal run of whitespace becomes one space
RECURSIVE CollapseWs(_)
CollapseWs(s) ==
    IF s = <<>> THEN <<>>
    ELSE IF IsSpace(Head(s))
         THEN IF Len(s) > 1 /\ IsSpace(s[2])
              THEN CollapseWs(Tail(s))
              ELSE <<" ">> \o CollapseWs(Tail(s))
         ELSE <<Head(s)>> \o CollapseWs(Tail(s))

RECURSIVE LStrip(_)
LStrip(s) == IF s # <<>> /\ IsSpace(Head(s)) THEN LStrip(Tail(s)) ELSE s

RECURSIVE RStrip(_)
RStrip(s) ==
    IF s # <<>> /\ IsSpace(s[Len(s)]) THEN RStrip(SubSeq(s, 1, Len(s) - 1)) ELSE s

\* str.strip()
strip(s) == RStrip(LStrip(s))

----------------------------------------------------------------------------
(* TextPreprocessor.normalize_text *)

\* r'[""]' : the class of line 48 holds the straight double quote only
DoubleQuotes == {"\""}

\* r"[‘’]"
CurlySingleQuotes == {LSQUO, RSQUO}

\* r'—|–'
Dashes == {EMDASH, ENDASH}

\* lines 45-50: lower-casing, then the quote and dash rewrites
Standardize(s) ==
    SubChar(SubChar(SubChar(lower(s), DoubleQuotes, "\""),
                    CurlySingleQuotes, "'"),
            Dashes, "-")

\* a bug a maintainer could make: the class of line 54 without '?'
SentenceClassNoQuestion(c) == ~(IsWord(c) \/ IsSpace(c) \/ c \in {".", "!", "'", "-"})

\* r'[^\w\s.!?\'-]' : what line 54 replaces by a space
SentenceClass(c) ==
    ~(IsWord(c) \/ IsSpace(c) \/ c \in {".", "!", "?", "'", "-"})

\* r"(?<!\w)'(?!\w)|[^\w\s]" at position i of s: what line 57 replaces by a
\* space.  Either alternative matches one character, so the matches are the
\* positions at which one of them matches.
ContractionClassAt(s, i) ==
    \/ /\ s[i] = "'"
       /\ ~(i > 1 /\ IsWord(s[i - 1]))
       /\ ~(i < Len(s) /\ IsWord(s[i + 1]))
    \/ ~(IsWord(s[i]) \/ IsSpace(s[i]))

\* a bug a maintainer could make: whitespace is collapsed before the
\* punctuation is replaced by spaces
normalize_text_CollapseFirst(t, preserve) ==
    LET std == CollapseWs(Standardize(t))
        sub == IF preserve
               THEN [i \in 1..Len(std) |->
                        IF SentenceClass(std[i]) THEN " " ELSE std[i]]
               ELSE [i \in 1..Len(std) |->
                        IF ContractionClassAt(std, i) THEN " " ELSE std[i]]
    IN strip(sub)

normalize_text(t, preserve) ==
    LET std == Standardize(t)
        sub == IF preserve
               THEN [i \in 1..Len(std) |->
                        IF SentenceClass(std[i]) THEN " " ELSE std[i]]
               ELSE [i \in 1..Len(std) |->
                        IF ContractionClassAt(std, i) THEN " " ELSE std[i]]
    IN strip(CollapseWs(sub))

----------------------------------------------------------------------------
(* TextPreprocessor.clean_text *)

\* re.sub(r"[^\w\s]", "", text): the characters outside the class are kept
RemovePunctuation(s) == SelectSeq(s, LAMBDA c : IsWord(c) \/ IsSpace(c))

\* a bug a maintainer could make: the class r"[^\w\s.!?]", which spares the
\* sentence terminators
clean_text_KeepTerminators(t) ==
    strip(CollapseWs(SelectSeq(t, LAMBDA c : IsWord(c) \/ IsSpace(c) \/ IsTerminator(c))))

clean_text(t) == strip(CollapseWs(RemovePunctuation(t)))

----------------------------------------------------------------------------
(* TextPreprocessor.tokenize_sentences, tokenize_words *)

RECURSIVE SkipTerminators(_)
SkipTerminators(s) ==
    IF s # <<>> /\ IsTerminator(Head(s)) THEN SkipTerminators(Tail(s)) ELSE s

\* re.split(r'[.!?]+', text), cur being the piece read so far: a run of
\* terminators ends a piece, and the last piece ends with the text
RECURSIVE SplitOnTerminators(_, _)
SplitOnTerminators(s, cur) ==
    IF s = <<>> THEN <<cur>>
    ELSE IF IsTerminator(Head(s))
         THEN <<cur>> \o SplitOnTerminators(SkipTerminators(Tail(s)), <<>>)
         ELSE SplitOnTerminators(Tail(s), Append(cur, Head(s)))

\* [s.strip() for s in sentences if s.strip()]
tokenize_sentences(t) ==
    LET pieces == SplitOnTerminators(t, <<>>)
        stripped == [i \in 1..Len(pieces) |-> strip(pieces[i])]
    IN SelectSeq(stripped, LAMBDA x : x # <<>>)

\* str.split(): the maximal runs of non-whitespace characters, cur being the
\* run read so far
RECURSIVE SplitOnWhitespace(_, _)
SplitOnWhitespace(s, cur) ==
    IF s = <<>> THEN (IF cur = <<>> THEN <<>> ELSE <<cur>>)
    ELSE IF IsSpace(Head(s))
         THEN (IF cur = <<>> THEN <<>> ELSE <<cur>>) \o SplitOnWhitespace(Tail(s), <<>>)
         ELSE SplitOnWhitespace(Tail(s), Append(cur, Head(s)))

\* re.sub(r'[.!?]', '', text).split(), and the filter of line 74
tokenize_words(t) ==
    LET text_for_words == SelectSeq(t, LAMBDA c : ~IsTerminator(c))
    IN SelectSeq(SplitOnWhitespace(text_for_words, <<>>), LAMBDA w : w # <<>>)

----------------------------------------------------------------------------
(* TextPreprocessor.get_text_statistics *)

RECURSIVE SumLens(_)
\* sum(len(w) for w in words)
SumLens(ws) == IF ws = <<>> THEN 0 ELSE Len(Head(ws)) + SumLens(Tail(ws))

RECURSIVE SumWordCounts(_)
\* sum(len(self.tokenize_words(s)) for s in sentences)
SumWordCounts(ss) ==
    IF ss = <<>> THEN 0 ELSE Len(tokenize_words(Head(ss))) + SumWordCounts(Tail(ss))

\* round(num / den, 2), in hundredths.  A tie is rounded to the even
\* hundredth, as round() does for a quotient that a float holds exactly.
Round2(num, den) ==
    LET q == (100 * num) \div den
        r == (100 * num) % den
    IN IF 2 * r < den THEN q
       ELSE IF 2 * r > den THEN q + 1
       ELSE IF q % 2 = 0 THEN q ELSE q + 1

\* the counts and averages of the statistics record (the averages in
\* hundredths); most_common_words is not modelled
get_text_statistics(t) ==
    LET words == tokenize_words(t)
        sentences == tokenize_sentences(t)
        total_words == Len(words)
        total_sentences == Len(sentences)
    IN [total_characters |-> Len(t),
        total_words |-> total_words,
        total_sentences |-> total_sentences,
        avg_word_length |->
            IF total_words > 0 THEN Round2(SumLens(words), total_words) ELSE 0,
        avg_sentence_length |->
            IF total_sentences > 0
            THEN Round2(SumWordCounts(sentences), total_sentences)
            ELSE 0]

----------------------------------------------------------------------------
(* TextPreprocessor.create_summary *)

Min(a, b) == IF a < b THEN a ELSE b
Max(a, b) == IF a > b THEN a ELSE b

\* s[:k] of a Python list
SlicePrefix(s, k) ==
    IF k >= 0 THEN SubSeq(s, 1, Min(k, Len(s)))
    ELSE SubSeq(s, 1, Max(Len(s) + k, 0))

RECURSIVE Join(_, _)
\* sep.join(parts)
Join(parts, sep) ==
    IF parts = <<>> THEN <<>>
    ELSE IF Len(parts) = 1 THEN parts[1]
    ELSE parts[1] \o sep \o Join(Tail(parts), sep)

\* str.endswith(('.', '!', '?'))
EndsWithTerminator(s) == s # <<>> /\ IsTerminator(s[Len(s)])

\* a bug a maintainer could make: the guard of lines 165-166 is missing
create_summary_NoEmptyGuard(t, num) ==
    LET joined == Join(SlicePrefix(tokenize_sentences(t), num), <<".", " ">>)
    IN IF EndsWithTerminator(joined) THEN joined ELSE Append(joined, ".")

create_summary(t, num) ==
    LET sentences == tokenize_sentences(t)
        joined == Join(SlicePrefix(sentences, num), <<".", " ">>)
    IN IF sentences = <<>> THEN <<>>
       ELSE IF EndsWithTerminator(joined) THEN joined
       ELSE Append(joined, ".")

----------------------------------------------------------------------------
(* Python dictionaries.  A dict is the sequence of its <<key, value>> items *)
(* in insertion order, the keys distinct.  A key of a frequency dictionary  *)
(* is [tuple |-> FALSE, elems |-> <<s>>] for the str s and                  *)
(* [tuple |-> TRUE, elems |-> <<s1, ..., sk>>] for the tuple (s1, ..., sk). *)

StrKey(s) == [tuple |-> FALSE, elems |-> <<s>>]
TupleKey(ss) == [tuple |-> TRUE, elems |-> ss]

DictKeys(d) == {d[i][1] : i \in 1..Len(d)}

\* d[k], for a key of d
DictGet(d, k) == d[CHOOSE i \in 1..Len(d) : d[i][1] = k][2]

\* d[k] = v : a key already in d keeps its place
DictSet(d, k, v) ==
    IF k \in DictKeys(d)
    THEN [i \in 1..Len(d) |-> IF d[i][1] = k THEN <<k, v>> ELSE d[i]]
    ELSE Append(d, <<k, v>>)

\* d1 == d2 of two dicts: the same items, in any order
DictEq(d1, d2) == {d1[i] : i \in 1..Len(d1)} = {d2[i] : i \in 1..Len(d2)}

RECURSIVE SumValues(_)
\* sum(d.values())
SumValues(d) == IF d = <<>> THEN 0 ELSE Head(d)[2] + SumValues(Tail(d))

----------------------------------------------------------------------------
(* FrequencyAnalyzer.calculate_ngrams *)

RECURSIVE Counter(_, _)
\* Counter(items), counted into d
Counter(items, d) ==
    IF items = <<>> THEN d
    ELSE LET k == Head(items)
         IN Counter(Tail(items),
                    DictSet(d, k, IF k \in DictKeys(d) THEN DictGet(d, k) + 1 ELSE 1))

\* range(stop) as the sequence 0, ..., stop - 1
Range(stop) == [i \in 1..Max(stop, 0) |-> i - 1]

\* toks[i:j] for 0 <= i and 0 <= j
Slice(toks, i, j) == SubSeq(toks, i + 1, Min(j, Len(toks)))

\* a bug a maintainer could make: range(len(tokens) - n), one window short
calculate_ngrams_OffByOne(toks, width) ==
    IF width = 1
    THEN Counter([i \in 1..Len(toks) |-> StrKey(toks[i])], <<>>)
    ELSE LET starts == Range(Len(toks) - width)
             ngrams == [j \in 1..Len(starts) |->
                            TupleKey(Slice(toks, starts[j], starts[j] + width))]
         IN Counter(ngrams, <<>>)

calculate_ngrams(toks, width) ==
    IF width = 1
    THEN Counter([i \in 1..Len(toks) |-> StrKey(toks[i])], <<>>)
    ELSE LET starts == Range(Len(toks) - width + 1)
             ngrams == [j \in 1..Len(starts) |->
                            TupleKey(Slice(toks, starts[j], starts[j] + width))]
         IN Counter(ngrams, <<>>)

----------------------------------------------------------------------------
(* FrequencyAnalyzer.calculate_probabilities *)

\* The probability (count + smoothing) / total is the pair <<count +
\* smoothing, total>>.  Dividing by a zero total raises ZeroDivisionError at
\* the first item; an empty dictionary has no item to divide.
calculate_probabilities(ngram_counts, smooth) ==
    LET total == SumValues(ngram_counts) + smooth * Len(ngram_counts)
    IN IF ngram_counts # <<>> /\ total = 0
       THEN [outcome |-> "ZeroDivisionError", value |-> <<>>]
       ELSE [outcome |-> "returned",
             value |-> [i \in 1..Len(ngram_counts) |->
                           <<ngram_counts[i][1],
                             <<ngram_counts[i][2] + smooth, total>>>>]]

----------------------------------------------------------------------------
(* FrequencyAnalyzer.save_frequencies, load_frequencies *)

\* the delimiter '||'
Delimiter == <<"|", "|">>

RECURSIVE JsonFriendly(_, _)
\* lines 204-209: the dictionary with its tuple keys joined, built into d
JsonFriendly(frequencies, d) ==
    IF frequencies = <<>> THEN d
    ELSE LET key == Head(frequencies)[1]
             value == Head(frequencies)[2]
             name == IF key.tuple THEN Join(key.elems, Delimiter) ELSE key.elems[1]
         IN JsonFriendly(Tail(frequencies), DictSet(d, name, value))

\* open(filename, 'w') and json.dump: the file holds the members of the JSON
\* object, which json.load gives back as they were written.  The function
\* raises nothing of its own.
save_frequencies(frequencies) ==
    [outcome |-> "returned",
     file |-> [exists |-> TRUE, members |-> JsonFriendly(frequencies, <<>>)]]

\* '||' in s
ContainsDelimiter(s) ==
    \E i \in 1..Len(s) - 1 : s[i] = "|" /\ s[i + 1] = "|"

RECURSIVE SplitOnDelimiter(_, _)
\* s.split('||'), cur being the piece read so far: the occurrences of the
\* delimiter are taken from the left and do not overlap
SplitOnDelimiter(s, cur) ==
    IF s = <<>> THEN <<cur>>
    ELSE IF Len(s) >= 2 /\ s[1] = "|" /\ s[2] = "|"
         THEN <<cur>> \o SplitOnDelimiter(SubSeq(s, 3, Len(s)), <<>>)
         ELSE SplitOnDelimiter(Tail(s), Append(cur, Head(s)))

RECURSIVE FromJson(_, _)
\* lines 219-224: the dictionary with the delimited keys split, built into d
FromJson(members, d) ==
    IF members = <<>> THEN d
    ELSE LET key == Head(members)[1]
             value == Head(members)[2]
             k == IF ContainsDelimiter(key)
                  THEN TupleKey(SplitOnDelimiter(key, <<>>))
                  ELSE StrKey(key)
         IN FromJson(Tail(members), DictSet(d, k, value))

\* open(filename, 'r') raises FileNotFoundError when nothing was saved
load_frequencies(f) ==
    IF ~f.exists
    THEN [outcome |-> "FileNotFoundError", value |-> <<>>]
    ELSE [outcome |-> "returned", value |-> FromJson(f.members, <<>>)]

----------------------------------------------------------------------------
(* TextPreprocessor.fetch_from_url and the /api/clean route *)

\* url.lower().endswith(".txt")
EndsWithTxt(url) ==
    LET u == lower(url)
    IN Len(u) >= 4 /\ SubSeq(u, Len(u) - 3, Len(u)) = <<".", "t", "x", "t">>

\* a bug a maintainer could make: the URL is requested first and validated
\* afterwards
fetch_from_url_ValidateLate(url, server) ==
    IF ~EndsWithTxt(url)
    THEN [calls |-> <<url>>, raised |-> TRUE,
          error |-> "URL must point to a .txt file", text |-> <<>>]
    ELSE IF ~server.ok
    THEN [calls |-> <<url>>, raised |-> TRUE, error |-> "Error fetching URL",
          text |-> <<>>]
    ELSE [calls |-> <<url>>, raised |-> FALSE, error |-> "", text |-> server.body]

\* calls: the URLs handed to requests.get.  A server that is not ok stands
\* for every RequestException: a timeout, a transport error, or the
\* HTTPError of raise_for_status.
fetch_from_url(url, server) ==
    IF ~EndsWithTxt(url)
    THEN [calls |-> <<>>, raised |-> TRUE,
          error |-> "URL must point to a .txt file", text |-> <<>>]
    ELSE IF ~server.ok
    THEN [calls |-> <<url>>, raised |-> TRUE, error |-> "Error fetching URL",
          text |-> <<>>]
    ELSE [calls |-> <<url>>, raised |-> FALSE, error |-> "", text |-> server.body]

\* the response before the handler has answered; a failure carries none of
\* cleaned_text, statistics and summary, which keep these values
NoResponse ==
    [status |-> 0, success |-> FALSE, error |-> "", cleaned_text |-> <<>>,
     statistics |-> [total_characters |-> 0, total_words |-> 0,
                     total_sentences |-> 0, avg_word_length |-> 0,
                     avg_sentence_length |-> 0],
     summary |-> <<>>]

\* fetch_from_url has not been called directly
NotFetched == [raised |-> FALSE, error |-> "", text |-> <<>>]

\* a response with success false
Failure(status, error) == [NoResponse EXCEPT !.status = status, !.error = error]

\* The handler of POST /api/clean on the body req.  A body without "url"
\* is answered 400; a "url" that is no string makes .strip() raise, which the
\* handler's except clause answers 500, as it does an exception of
\* fetch_from_url.
api_clean(req, server) ==
    IF req.kind = "no_url"
    THEN [calls |-> <<>>, response |-> Failure(400, "Missing 'url' in request JSON")]
    ELSE IF req.kind = "not_a_string"
    THEN [calls |-> <<>>, response |-> Failure(500, "Server error")]
    ELSE LET url == strip(req.url)
         IN IF ~EndsWithTxt(url)
            THEN [calls |-> <<>>,
                  response |-> Failure(400, "URL must point to a .txt file")]
            ELSE LET f == fetch_from_url(url, server)
                     cleaned_text == clean_text(f.text)
                     normalized_text == normalize_text(cleaned_text, TRUE)
                 IN IF f.raised
                    THEN [calls |-> f.calls, response |-> Failure(500, "Server error")]
                    ELSE [calls |-> f.calls,
                          response |->
                             [status |-> 200, success |-> TRUE, error |-> "",
                              cleaned_text |-> normalized_text,
                              statistics |-> get_text_statistics(normalized_text),
                              summary |-> create_summary(normalized_text, 3)]]

----------------------------------------------------------------------------
(* Inputs. *)

RECURSIVE SeqsUpTo(_, _)
\* the sequences over S of length at most n
SeqsUpTo(S, len) ==
    IF len = 0 THEN {<<>>}
    ELSE LET shorter == SeqsUpTo(S, len - 1)
         IN shorter \cup
            {Append(s, c) : s \in {x \in shorter : Len(x) = len - 1}, c \in S}

\* the characters of the texts given to normalize_text
NormalizeAlphabet ==
    {"a", "A", " ", "\t", ".", "?", "'", "-", ",", "\"", EMDASH, RSQUO}

\* the characters of the texts given to create_summary
SummaryAlphabet == {"a", "b", " ", ".", "?"}

\* the URLs of the requests
Urls == SeqsUpTo({"a", ".", "t", "x", "T", " "}, MaxUrlLen)

\* the bodies of the POSTs to /api/clean
Requests ==
    {[kind |-> "no_url", url |-> <<>>], [kind |-> "not_a_string", url |-> <<>>]}
    \cup {[kind |-> "url", url |-> u] : u \in Urls}

\* the documents behind the URLs
Documents == SeqsUpTo({"a", "A", " ", "\n", ".", "!", "?", "'", ","}, MaxDocLen)

\* the tokens handed to calculate_ngrams
NgramVocabulary == {<<"a">>, <<"b">>, <<"a", "|">>}

\* the tokens of the keys of the frequency dictionaries
KeyTokens == SeqsUpTo({"a", "|"}, MaxTokenLen)

\* str keys and tuple keys
Keys ==
    {StrKey(t) : t \in KeyTokens} \cup
    {TupleKey(ts) : ts \in SeqsUpTo(KeyTokens, MaxArity)}

\* the frequency dictionaries: up to MaxEntries distinct keys, with counts
Tables ==
    {d \in SeqsUpTo(Keys \X (0..MaxCount), MaxEntries) :
        \A i, j \in 1..Len(d) : d[i][1] = d[j][1] => i = j}

----------------------------------------------------------------------------
(* Normalizing a text, and normalizing the result again. *)

\* no TextPreprocessor call is under way
TextIdle ==
    /\ text = <<>>
    /\ preserve_sentences = TRUE
    /\ normalized = <<>>
    /\ renormalized = <<>>
    /\ num_sentences = 3
    /\ summary = <<>>

\* no request is under way
AppIdle ==
    /\ entry = "none"
    /\ request = [kind |-> "no_url", url |-> <<>>]
    /\ remote = [ok |-> FALSE, body |-> <<>>]
    /\ network = <<>>
    /\ fetched = NotFetched
    /\ response = NoResponse

\* no FrequencyAnalyzer call is under way
FreqIdle ==
    /\ tokens = <<>>
    /\ n = 1
    /\ table = <<>>
    /\ smoothing = 0
    /\ probabilities = <<>>
    /\ file = [exists |-> FALSE, members |-> <<>>]
    /\ loaded = <<>>
    /\ outcome = "none"

InitNormalize ==
    /\ pc = "start"
    /\ text \in SeqsUpTo(NormalizeAlphabet, MaxTextLen)
    /\ preserve_sentences \in BOOLEAN
    /\ normalized = <<>>
    /\ renormalized = <<>>
    /\ num_sentences = 3
    /\ summary = <<>>
    /\ FreqIdle
    /\ AppIdle

NormalizeText ==
    /\ pc = "start"
    /\ normalized' = normalize_text(text, preserve_sentences)
    /\ pc' = "normalized"
    /\ UNCHANGED <<text, preserve_sentences, renormalized, num_sentences, summary>>
    /\ UNCHANGED <<freqVars, appVars>>

NormalizeAgain ==
    /\ pc = "normalized"
    /\ renormalized' = normalize_text(normalized, preserve_sentences)
    /\ pc' = "renormalized"
    /\ UNCHANGED <<text, preserve_sentences, normalized, num_sentences, summary>>
    /\ UNCHANGED <<freqVars, appVars>>

NextNormalize == NormalizeText \/ NormalizeAgain

SpecNormalize == InitNormalize /\ [][NextNormalize]_vars

----------------------------------------------------------------------------
(* Properties of normalize_text. *)

\* the characters of s that are not the ASCII space
NonSpace(s) == SelectSeq(s, LAMBDA c : c # " ")

\* no leading, trailing or doubled space, and no other whitespace
SingleSpaced(s) ==
    /\ \A i \in 1..Len(s) : IsSpace(s[i]) => s[i] = " "
    /\ \A i \in 1..Len(s) - 1 : ~(s[i] = " " /\ s[i + 1] = " ")
    /\ s # <<>> => (s[1] # " " /\ s[Len(s)] # " ")

\* the text after lower-casing and the quote and dash rewrites, as the
\* description of normalize gives them
Rewritten(s) ==
    [i \in 1..Len(s) |->
        LET c == LowerChar(s[i])
        IN IF c \in {LSQUO, RSQUO} THEN "'"
           ELSE IF c \in {EMDASH, ENDASH} THEN "-"
           ELSE c]

InContraction(s, i) ==
    /\ s[i] = "'"
    /\ i > 1 /\ IsWord(s[i - 1])
    /\ i < Len(s) /\ IsWord(s[i + 1])

\* the word characters and contraction apostrophes of s from position i on
RECURSIVE WordsAndContractions(_, _)
WordsAndContractions(s, i) ==
    IF i > Len(s) THEN <<>>
    ELSE (IF IsWord(s[i]) \/ InContraction(s, i) THEN <<s[i]>> ELSE <<>>)
             \o WordsAndContractions(s, i + 1)

\* C6: without preserve_sentences normalize keeps every apostrophe inside a
\* contraction and replaces by a space every stray apostrophe and every other
\* character that is neither a word character nor whitespace.
C6_KeepsContractionApostrophes ==
    (pc # "start" /\ ~preserve_sentences) =>
        /\ SingleSpaced(normalized)
        /\ NonSpace(normalized) =
              WordsAndContractions(Rewritten(text), 1)

\* C7: normalize is idempotent, for either setting of preserve_sentences.
C7_NormalizeIdempotent ==
    pc = "renormalized" => renormalized = normalized

\* a text that the first normalization changed, to a non-empty result with a
\* space and a punctuation character in it, was normalized a second time
C7_Witness ==
    /\ pc = "renormalized"
    /\ normalized # text
    /\ \E i, j \in 1..Len(normalized) :
          normalized[i] = " " /\ ~IsWord(normalized[j]) /\ normalized[j] # " "

----------------------------------------------------------------------------
(* Summarizing a text. *)

InitSummary ==
    /\ pc = "start"
    /\ text \in SeqsUpTo(SummaryAlphabet, MaxSummaryTextLen)
    /\ num_sentences \in -1..MaxNumSentences
    /\ summary = <<>>
    /\ preserve_sentences = TRUE
    /\ normalized = <<>>
    /\ renormalized = <<>>
    /\ FreqIdle
    /\ AppIdle

CreateSummary ==
    /\ pc = "start"
    /\ summary' = create_summary(text, num_sentences)
    /\ pc' = "summarized"
    /\ UNCHANGED <<text, num_sentences, preserve_sentences, normalized, renormalized>>
    /\ UNCHANGED <<freqVars, appVars>>

NextSummary == CreateSummary

SpecSummary == InitSummary /\ [][NextSummary]_vars

\* the first k of the sentences ss, each but the last followed by ". "
RECURSIVE DotSeparated(_, _)
DotSeparated(ss, k) ==
    IF k = 0 THEN <<>>
    ELSE IF k = 1 THEN ss[1]
    ELSE DotSeparated(ss, k - 1) \o <<".", " ">> \o ss[k]

\* C8: for num_sentences >= 0 the summary is empty when the text has no
\* sentence, and otherwise the first min(num_sentences, count) sentences in
\* order, joined with ". ", with one "." appended unless the joined text
\* already ends in '.', '!' or '?'.
C8_SummaryIsLeadingSentences ==
    (pc = "summarized" /\ num_sentences >= 0) =>
        LET ss == tokenize_sentences(text)
            k == IF num_sentences < Len(ss) THEN num_sentences ELSE Len(ss)
            joined == DotSeparated(ss, k)
        IN IF Len(ss) = 0 THEN summary = <<>>
           ELSE IF joined # <<>> /\ joined[Len(joined)] \in {".", "!", "?"}
                THEN summary = joined
                ELSE summary = joined \o <<".">>

\* a text of three sentences was summarized to its first two
C8_Witness ==
    /\ pc = "summarized"
    /\ num_sentences = 2
    /\ Len(tokenize_sentences(text)) = 3
    /\ Len(summary) >= 5

----------------------------------------------------------------------------
(* FrequencyAnalyzer calls: counting the n-grams of a token list, or taking *)
(* a frequency dictionary as given; then its probabilities, or saving it    *)
(* and loading it back.                                                     *)

InitNgrams ==
    /\ pc = "tokens"
    /\ tokens \in SeqsUpTo(NgramVocabulary, MaxTokens)
    /\ n \in 0..MaxN
    /\ table = <<>>
    /\ smoothing \in 0..MaxSmoothing
    /\ probabilities = <<>>
    /\ file = [exists |-> FALSE, members |-> <<>>]
    /\ loaded = <<>>
    /\ outcome = "none"
    /\ TextIdle
    /\ AppIdle

InitFreq ==
    /\ pc = "ready"
    /\ tokens = <<>>
    /\ n = 1
    /\ table \in Tables
    /\ smoothing \in 0..MaxSmoothing
    /\ probabilities = <<>>
    /\ file = [exists |-> FALSE, members |-> <<>>]
    /\ loaded = <<>>
    /\ outcome = "none"
    /\ TextIdle
    /\ AppIdle

CalculateNgrams ==
    /\ pc = "tokens"
    /\ table' = calculate_ngrams(tokens, n)
    /\ outcome' = "returned"
    /\ pc' = "ready"
    /\ UNCHANGED <<tokens, n, smoothing, probabilities, file, loaded>>
    /\ UNCHANGED <<textVars, appVars>>

CalculateProbabilities ==
    /\ pc = "ready"
    /\ LET r == calculate_probabilities(table, smoothing)
       IN /\ probabilities' = r.value
          /\ outcome' = r.outcome
    /\ pc' = "probabilities"
    /\ UNCHANGED <<tokens, n, table, smoothing, file, loaded>>
    /\ UNCHANGED <<textVars, appVars>>

SaveFrequencies ==
    /\ pc = "ready"
    /\ LET r == save_frequencies(table)
       IN /\ file' = r.file
          /\ outcome' = r.outcome
    /\ pc' = "saved"
    /\ UNCHANGED <<tokens, n, table, smoothing, probabilities, loaded>>
    /\ UNCHANGED <<textVars, appVars>>

LoadFrequencies ==
    /\ pc \in {"ready", "saved"}
    /\ LET r == load_frequencies(file)
       IN /\ loaded' = r.value
          /\ outcome' = r.outcome
    /\ pc' = "loaded"
    /\ UNCHANGED <<tokens, n, table, smoothing, probabilities, file>>
    /\ UNCHANGED <<textVars, appVars>>

NextFreq == CalculateProbabilities \/ SaveFrequencies \/ LoadFrequencies

NextNgrams == CalculateNgrams \/ NextFreq

SpecFreq == InitFreq /\ [][NextFreq]_vars

SpecNgrams == InitNgrams /\ [][NextNgrams]_vars

\* some token of some key of d contains the delimiter "||"
SomeTokenHasDelimiter(d) ==
    \E i \in 1..Len(d) : \E j \in 1..Len(d[i][1].elems) :
        \E p \in 1..Len(d[i][1].elems[j]) - 1 :
            d[i][1].elems[j][p] = "|" /\ d[i][1].elems[j][p + 1] = "|"

\* C1: a frequency dictionary whose keys are strings or tuples of strings,
\* none containing "||", is loaded back equal to what was saved: the same
\* keys with the same shape and arity, and the same counts.
C1_RoundTrip ==
    (pc = "loaded" /\ file.exists /\ ~SomeTokenHasDelimiter(table)) =>
        /\ outcome = "returned"
        /\ DictEq(loaded, table)

\* C2: saving a dictionary one of whose tokens contains "||" fails with a
\* SerializationError, and nothing is written.
C2_SaveRejectsDelimiter ==
    (pc = "saved" /\ SomeTokenHasDelimiter(table)) =>
        /\ outcome = "SerializationError"
        /\ ~file.exists

\* C3: the probabilities of a dictionary whose counts sum to 0, asked with
\* smoothing 0, end in an EmptyDistributionError: no value is returned and
\* no other error is raised.
C3_ZeroTotalIsEmptyDistributionError ==
    (pc = "probabilities" /\ smoothing = 0 /\ SumValues(table) = 0) =>
        outcome = "EmptyDistributionError"

\* the window of width n that starts at token i
WindowAt(i) == SubSeq(tokens, i, i + n - 1)

\* C4: for n >= 1 the counts of calculate_ngrams(tokens, n) sum to
\* len(tokens) - n + 1 when n <= len(tokens), the dictionary is empty when
\* n > len(tokens), and each key's count is the number of windows of width n
\* equal to it (so every window is a key).
C4_NgramCounts ==
    (pc # "tokens" /\ n >= 1) =>
        LET L == Len(tokens)
            starts == 1..(L - n + 1)
        IN /\ n <= L => SumValues(table) = L - n + 1
           /\ n > L => table = <<>>
           /\ \A e \in 1..Len(table) :
                 table[e][2] =
                    Cardinality({i \in starts : WindowAt(i) = table[e][1].elems})
           /\ \A e, f \in 1..Len(table) : table[e][1] = table[f][1] => e = f
           /\ \A i \in starts : \E e \in 1..Len(table) : table[e][1].elems = WindowAt(i)

\* the bigrams of four tokens were counted, one of them twice
C4_Witness ==
    /\ pc = "ready"
    /\ n = 2
    /\ Len(tokens) = 4
    /\ Len(table) = 2
    /\ \E e \in 1..Len(table) : table[e][2] = 2

----------------------------------------------------------------------------
(* Requests: a POST to /api/clean, or a direct call of fetch_from_url.      *)

\* servers that fail, or answer with one of three documents
SomeServers ==
    {[ok |-> FALSE, body |-> <<>>],
     [ok |-> TRUE, body |-> <<>>],
     [ok |-> TRUE, body |-> <<"A", ".", " ", "a", "!">>],
     [ok |-> TRUE, body |-> <<"a", ",", "a">>]}

\* servers that fail, or answer with any document
AllServers ==
    {[ok |-> FALSE, body |-> <<>>]} \cup {[ok |-> TRUE, body |-> d] : d \in Documents}

\* four bodies: no url, a url that is not a .txt, and two that are
SomeRequests ==
    {[kind |-> "no_url", url |-> <<>>],
     [kind |-> "url", url |-> <<"a", ".", "t", "x">>],
     [kind |-> "url", url |-> <<"a", ".", "t", "x", "t">>],
     [kind |-> "url", url |-> <<" ", "a", ".", "T", "x", "t", " ">>]}

InitRequest(requests, servers) ==
    /\ pc = "request"
    /\ \/ entry = "api_clean" /\ request \in requests
       \/ entry = "fetch_from_url" /\ request \in {r \in requests : r.kind = "url"}
    /\ remote \in servers
    /\ network = <<>>
    /\ fetched = NotFetched
    /\ response = NoResponse
    /\ TextIdle
    /\ FreqIdle

\* every request, against a few servers
InitApi == InitRequest(Requests, SomeServers)

\* a few requests, against every server
InitPipeline == InitRequest(SomeRequests, AllServers)

ApiClean ==
    /\ pc = "request"
    /\ entry = "api_clean"
    /\ LET r == api_clean(request, remote)
       IN /\ network' = network \o r.calls
          /\ response' = r.response
    /\ pc' = "responded"
    /\ UNCHANGED <<entry, request, remote, fetched>>
    /\ UNCHANGED <<textVars, freqVars>>

FetchFromUrl ==
    /\ pc = "request"
    /\ entry = "fetch_from_url"
    /\ LET f == fetch_from_url(request.url, remote)
       IN /\ network' = network \o f.calls
          /\ fetched' = [raised |-> f.raised, error |-> f.error, text |-> f.text]
    /\ pc' = "responded"
    /\ UNCHANGED <<entry, request, remote, response>>
    /\ UNCHANGED <<textVars, freqVars>>

NextApi == ApiClean \/ FetchFromUrl

SpecApi == InitApi /\ [][NextApi]_vars

SpecPipeline == InitPipeline /\ [][NextApi]_vars

\* u ends in ".txt", whatever the case of its letters
IsTxtUrl(u) ==
    /\ Len(u) >= 4
    /\ u[Len(u) - 3] = "."
    /\ u[Len(u) - 2] \in {"t", "T"}
    /\ u[Len(u) - 1] \in {"x", "X"}
    /\ u[Len(u)] \in {"t", "T"}

\* the URL a call validates: the handler takes the request's url stripped of
\* surrounding whitespace, fetch_from_url takes its argument as it is
ValidatedUrl == IF entry = "api_clean" THEN strip(request.url) ELSE request.url

\* C9: the check that the URL ends in ".txt" comes before any network call:
\* every URL handed to the network ends in ".txt", and a call whose URL does
\* not ends in failure (success false, or an exception) with no network call.
C9_TxtCheckedBeforeNetwork ==
    /\ \A i \in 1..Len(network) : IsTxtUrl(network[i])
    /\ (pc = "responded" /\ request.kind = "url" /\ ~IsTxtUrl(ValidatedUrl)) =>
          /\ network = <<>>
          /\ entry = "api_clean" => (~response.success /\ response.status # 200)
          /\ entry = "fetch_from_url" => fetched.raised

\* a direct call of fetch_from_url with a URL that ends in ".tx", behind which
\* a server would have answered, raised without a network call
C9_Witness ==
    /\ pc = "responded"
    /\ entry = "fetch_from_url"
    /\ Len(request.url) >= 4
    /\ SubSeq(request.url, Len(request.url) - 2, Len(request.url)) = <<".", "t", "x">>
    /\ remote.ok
    /\ fetched.raised
    /\ network = <<>>

\* C10: in the /api/clean pipeline clean_text removes every '.', '!' and
\* '?' before the sentences are tokenized: a successful response reports one
\* sentence for a non-empty cleaned text and none for an empty one, an
\* avg_sentence_length equal to total_words (or 0), and as summary the whole
\* cleaned text followed by "." (or the empty string).
C10_PipelineSeesOneSentence ==
    (pc = "responded" /\ entry = "api_clean" /\ response.status = 200) =>
        LET c == response.cleaned_text
            st == response.statistics
        IN /\ \A i \in 1..Len(c) : c[i] \notin {".", "!", "?"}
           /\ st.total_sentences = (IF c = <<>> THEN 0 ELSE 1)
           /\ st.avg_sentence_length = (IF c = <<>> THEN 0 ELSE 100 * st.total_words)
           /\ response.summary = (IF c = <<>> THEN <<>> ELSE c \o <<".">>)

\* a document of two sentences was fetched and answered as one sentence of
\* two words
C10_Witness ==
    /\ pc = "responded"
    /\ response.status = 200
    /\ Len(tokenize_sentences(remote.body)) = 2
    /\ response.statistics.total_words = 2
    /\ response.statistics.total_sentences = 1

====
